---- MODULE Spec2Model ----
(***************************************************************************)
(* The L1-to-L2 derivation pipeline of rsnode (src/src/main.rs): Channel,  *)
(* ChannelBank, BatchQueue and Derivation, as a state machine.             *)
(*                                                                         *)
(* Derivation::load_l1_data is followed statement by statement: `pc` is    *)
(* the position inside the call (the for loop of load_frames, the while    *)
(* loop over get_channel_data, the final load_batches).  The elements of   *)
(* the `frames` vector are chosen when the loop consumes them.  A panic    *)
(* (assert!, unwrap, expect) is recorded in `panicked`; nothing runs       *)
(* afterwards, the instance being discarded.                               *)
(*                                                                         *)
(* The mpt crate (src/crates/mpt/src/lib.rs) has its own specifications:   *)
(* SpecMPT inserts keys into a trie, SpecCompact runs the compact codec    *)
(* on a nibble path.                                                       *)
(***************************************************************************)
EXTENDS Integers, Sequences, FiniteSets, TLC

\* ---------------------------------------------------------------- constants
MAX_CHANNEL_BANK_SIZE == 100000000
CHANNEL_TIMEOUT == 100
L2_BLOCK_TIME == 2

\* ------------------------------------------------------------------- bounds
\* Channel ids are 1..MaxChannelId, frame numbers 0..MaxFrameNumber.
MaxChannelId == 2
MaxFrameNumber == 1
\* load_l1_data is called at most MaxBlocks times, with at most MaxFrames
\* frames in all.
MaxBlocks == 2
MaxFrames == 2
\* L2 heads handed to next_l2_attributes have number 0..MaxL2Number.
MaxL2Number == 1
\* Nibble paths handed to the compact codec have at most MaxNibbles nibbles.
MaxNibbles == 3
\* MPT::insert is called at most MaxInserts times, with keys of at most
\* MaxKeyLen bytes.
MaxKeyLen == 2
MaxInserts == 3

\* --------------------------------------------------------------- Option<T>
None == [some |-> FALSE, val |-> 0]
Some(v) == [some |-> TRUE, val |-> v]

Max(a, b) == IF a >= b THEN a ELSE b

\* ------------------------------------------------------------ payload bytes
\* A frame's data is a sequence of chunks of the channel's zlib stream.  A
\* chunk is either corrupt (the decoder rejects it) or the compressed form of
\* one item of the decompressed buffer; len is its length in bytes.
\* An item is an RLP string wrapping an encoded batch ("str"), or bytes that
\* are no RLP value ("junk"); the wrapped bytes decode to a Batch ("batch")
\* or do not ("bad").  A batch's transactions are byte strings, written as
\* numbers: 0 is a byte string that is no RLP transaction.
Item(outer, inner, ts, txs) ==
    [outer |-> outer, inner |-> inner, timestamp |-> ts, transactions |-> txs]

Chunk(ok, item, len) == [ok |-> ok, item |-> item, len |-> len]

NoItem == Item("junk", "bad", 0, <<>>)

\* The payloads frames carry: a small stream of a string that is no batch, a
\* batch for timestamp 2, junk and what would be a batch behind the junk; a
\* large stream of a batch for timestamp 2 and a batch for timestamp 4 one of
\* whose transactions does not decode; a large corrupt chunk.
FrameDatas ==
    { << Chunk(TRUE, Item("str", "bad", 0, <<>>), 10),
         Chunk(TRUE, Item("str", "batch", 2, <<1>>), 10),
         Chunk(TRUE, NoItem, 10),
         Chunk(TRUE, Item("str", "batch", 4, <<1>>), 10) >>,
      << Chunk(TRUE, Item("str", "batch", 2, <<2>>), 60000000),
         Chunk(TRUE, Item("str", "batch", 4, <<1, 0>>), 20) >>,
      << Chunk(FALSE, NoItem, 50000000) >> }

\* A frame is a record [id, number, data, is_last].
ChannelIds == 1..MaxChannelId
FrameNumbers == 0..MaxFrameNumber

\* Frame::size: the length of the frame's data.
RECURSIVE DataLen(_)
DataLen(data) ==
    IF data = <<>> THEN 0 ELSE Head(data).len + DataLen(Tail(data))

FrameSize(frame) == DataLen(frame.data)

\* ------------------------------------------------------------------ Channel
ChannelNew(id, l1_block) ==
    [ frames |-> <<>>,
      id |-> id,
      size |-> 0,
      highest_frame_number |-> 0,
      end_frame_number |-> None,
      lowest_l1_block |-> l1_block,
      highest_l1_block |-> l1_block ]

Closed(c) == c.end_frame_number.some

RECURSIVE SumFrameSizes(_, _)
SumFrameSizes(frames, ks) ==
    IF ks = {} THEN 0
    ELSE LET k == CHOOSE x \in ks : TRUE
         IN FrameSize(frames[k]) + SumFrameSizes(frames, ks \ {k})

\* FrameIgnored without the check for a frame number already stored.
FrameIgnored_NoDuplicateCheck(c, frame) ==
    \/ c.id # frame.id
    \/ Closed(c) /\ frame.is_last
    \/ Closed(c) /\ frame.number > c.highest_frame_number

\* FrameIgnored without the check for a closing frame on a closed channel.
FrameIgnored_NoClosedLastCheck(c, frame) ==
    \/ c.id # frame.id
    \/ frame.number \in DOMAIN c.frames
    \/ Closed(c) /\ frame.number > c.highest_frame_number

FrameIgnored(c, frame) ==
    \/ c.id # frame.id
    \/ Closed(c) /\ frame.is_last
    \/ frame.number \in DOMAIN c.frames
    \/ Closed(c) /\ frame.number > c.highest_frame_number

ChannelLoadFrame(c, frame, l1_block) ==
    IF FrameIgnored(c, frame) THEN c
    ELSE
        LET drains == frame.is_last /\ frame.number > c.highest_frame_number
            evicted == IF drains
                       THEN {k \in DOMAIN c.frames : k > frame.number}
                       ELSE {}
            kept == DOMAIN c.frames \ evicted
            size1 == c.size - SumFrameSizes(c.frames, evicted)
            hfn1 == IF drains THEN frame.number ELSE c.highest_frame_number
        IN [ c EXCEPT
               !.end_frame_number =
                   IF frame.is_last THEN Some(frame.number) ELSE @,
               !.highest_frame_number = Max(hfn1, frame.number),
               !.highest_l1_block = Max(@, l1_block),
               !.size = size1 + FrameSize(frame),
               !.frames = [k \in kept \cup {frame.number} |->
                              IF k = frame.number THEN frame ELSE c.frames[k]] ]

\* IsReady that asks for the closing frame only.
IsReady_ClosedOnly(c) ==
    /\ c.end_frame_number.some
    /\ c.end_frame_number.val \in DOMAIN c.frames

IsReady(c) ==
    /\ c.end_frame_number.some
    /\ \A i \in 0..c.end_frame_number.val : i \in DOMAIN c.frames

\* ConcatFrames from the highest frame number down.
RECURSIVE ConcatFrames_Descending(_, _, _)
ConcatFrames_Descending(frames, i, last) ==
    IF i > last THEN <<>>
    ELSE frames[last].data \o ConcatFrames_Descending(frames, i, last - 1)

RECURSIVE ConcatFrames(_, _, _)
ConcatFrames(frames, i, last) ==
    IF i > last THEN <<>>
    ELSE frames[i].data \o ConcatFrames(frames, i + 1, last)

ChannelData(c) == ConcatFrames(c.frames, 0, c.end_frame_number.val)

\* IsTimedOut with >= for >.
IsTimedOut_Geq(c) ==
    c.highest_l1_block - c.lowest_l1_block >= CHANNEL_TIMEOUT

IsTimedOut(c) ==
    c.highest_l1_block - c.lowest_l1_block > CHANNEL_TIMEOUT

\* -------------------------------------------------------------- ChannelBank
\* A bank is [channels_map, channels_by_creation].
Bank(cm, cbc) == [channels_map |-> cm, channels_by_creation |-> cbc]

Peek(bank) ==
    IF bank.channels_by_creation = <<>> THEN None
    ELSE IF Head(bank.channels_by_creation) \in DOMAIN bank.channels_map
         THEN Some(bank.channels_map[Head(bank.channels_by_creation)])
         ELSE None

MapRemove(cm, id) == [k \in DOMAIN cm \ {id} |-> cm[k]]

\* remove(): the bank after pop_front and the removal from the map.
Remove(bank) ==
    IF bank.channels_by_creation = <<>> THEN bank
    ELSE Bank(MapRemove(bank.channels_map, Head(bank.channels_by_creation)),
              Tail(bank.channels_by_creation))

RECURSIVE SumSizes(_, _)
SumSizes(cm, ids) ==
    IF ids = {} THEN 0
    ELSE LET id == CHOOSE x \in ids : TRUE
         IN cm[id].size + SumSizes(cm, ids \ {id})

TotalSize(bank) == SumSizes(bank.channels_map, DOMAIN bank.channels_map)

\* Prune with pop_back for pop_front: the newest channel goes first.
RECURSIVE PruneNewest(_)
PruneNewest(bank) ==
    IF TotalSize(bank) > MAX_CHANNEL_BANK_SIZE
    THEN IF bank.channels_by_creation = <<>>
         THEN [bank |-> bank, panic |-> TRUE]
         ELSE LET cbc == bank.channels_by_creation
              IN PruneNewest(Bank(MapRemove(bank.channels_map, cbc[Len(cbc)]),
                                  SubSeq(cbc, 1, Len(cbc) - 1)))
    ELSE [bank |-> bank, panic |-> FALSE]

\* prune(): [bank, panic]; panic is the failed expect() on an empty queue.
RECURSIVE Prune(_)
Prune(bank) ==
    IF TotalSize(bank) > MAX_CHANNEL_BANK_SIZE
    THEN IF Peek(bank).some
         THEN Prune(Remove(bank))
         ELSE [bank |-> Remove(bank), panic |-> TRUE]
    ELSE [bank |-> bank, panic |-> FALSE]

HeadReady(bank) == Peek(bank).some /\ IsReady(Peek(bank).val)

\* BankInsertFrame with push_front for push_back.
BankInsertFrame_PushFront(bank, frame, l1_block) ==
    LET fresh == frame.id \notin DOMAIN bank.channels_map
        cbc == IF fresh
               THEN <<frame.id>> \o bank.channels_by_creation
               ELSE bank.channels_by_creation
        c0 == IF fresh THEN ChannelNew(frame.id, l1_block)
              ELSE bank.channels_map[frame.id]
        c1 == ChannelLoadFrame(c0, frame, l1_block)
    IN Bank([k \in DOMAIN bank.channels_map \cup {frame.id} |->
                IF k = frame.id THEN c1 ELSE bank.channels_map[k]], cbc)

\* The entry(frame.id).or_insert_with(..).load_frame(..) of load_frame.
BankInsertFrame(bank, frame, l1_block) ==
    LET fresh == frame.id \notin DOMAIN bank.channels_map
        cbc == IF fresh
               THEN Append(bank.channels_by_creation, frame.id)
               ELSE bank.channels_by_creation
        ch == IF fresh THEN ChannelNew(frame.id, l1_block)
              ELSE bank.channels_map[frame.id]
        ch1 == ChannelLoadFrame(ch, frame, l1_block)
    IN Bank([k \in DOMAIN bank.channels_map \cup {frame.id} |->
                IF k = frame.id THEN ch1 ELSE bank.channels_map[k]], cbc)

\* GetChannelData that skips ahead to the first ready channel.
GetChannelData_SkipAhead(bank) ==
    LET cbc == bank.channels_by_creation
        ready == {i \in 1..Len(cbc) : IsReady(bank.channels_map[cbc[i]])}
    IN IF ready = {} THEN [bank |-> bank, ch |-> None, ret |-> None]
       ELSE LET i == CHOOSE x \in ready : \A y \in ready : x <= y
                c == bank.channels_map[cbc[i]]
            IN [ bank |-> Bank(MapRemove(bank.channels_map, cbc[i]),
                               SubSeq(cbc, 1, i - 1) \o SubSeq(cbc, i + 1, Len(cbc))),
                 ch |-> Some(c),
                 ret |-> IF ~IsTimedOut(c) THEN Some(ChannelData(c)) ELSE None ]

\* get_channel_data: [bank, ch, ret]; ch is the channel it removed, if any.
GetChannelData(bank) ==
    IF ~Peek(bank).some THEN [bank |-> bank, ch |-> None, ret |-> None]
    ELSE IF IsReady(Peek(bank).val)
         THEN LET ch == Peek(bank).val
              IN [ bank |-> Remove(bank),
                   ch |-> Some(ch),
                   ret |-> IF ~IsTimedOut(ch) THEN Some(ChannelData(ch))
                           ELSE None ]
         ELSE [bank |-> bank, ch |-> None, ret |-> None]

\* --------------------------------------------------------------- BatchQueue
Batch(item) == [timestamp |-> item.timestamp, transactions |-> item.transactions]

\* ZlibDecoder::read_to_end: an error if the stream is corrupt, else the
\* decompressed buffer, the items of the chunks in order.
Decompress(data) ==
    IF \E i \in 1..Len(data) : ~data[i].ok
    THEN [ok |-> FALSE, buffer |-> <<>>]
    ELSE [ok |-> TRUE, buffer |-> [i \in 1..Len(data) |-> data[i].item]]

\* The loop peeling RLP strings off the buffer: it stops at the first bytes
\* that are no RLP value, or at the end of the buffer.
RECURSIVE DecodedBatches(_)
DecodedBatches(buf) ==
    IF buf = <<>> THEN <<>>
    ELSE IF Head(buf).outer = "str"
         THEN <<Head(buf)>> \o DecodedBatches(Tail(buf))
         ELSE <<>>

\* decoded_batches.iter().map(decode).filter_map(ok)
RECURSIVE FilterBatches(_)
FilterBatches(strs) ==
    IF strs = <<>> THEN <<>>
    ELSE IF Head(strs).inner = "batch"
         THEN <<Batch(Head(strs))>> \o FilterBatches(Tail(strs))
         ELSE FilterBatches(Tail(strs))

\* channel_bytes_to_batches: [panic, batches]; panic is the unwrap() of the
\* decompression error.
ChannelBytesToBatches(data) ==
    LET d == Decompress(data)
    IN IF ~d.ok THEN [panic |-> TRUE, batches |-> <<>>]
       ELSE [panic |-> FALSE, batches |-> FilterBatches(DecodedBatches(d.buffer))]

\* PushBatch with push_front for push_back.
PushBatch_Front(bm, b) ==
    LET q == IF b.timestamp \in DOMAIN bm THEN bm[b.timestamp] ELSE <<>>
    IN [t \in DOMAIN bm \cup {b.timestamp} |->
           IF t = b.timestamp THEN <<b>> \o q ELSE bm[t]]

\* The batches map after pushing b: a vacant entry is created first.
PushBatch(bm, b) ==
    LET q == IF b.timestamp \in DOMAIN bm THEN bm[b.timestamp] ELSE <<>>
    IN [t \in DOMAIN bm \cup {b.timestamp} |->
           IF t = b.timestamp THEN Append(q, b) ELSE bm[t]]

RECURSIVE PushBatches(_, _)
PushBatches(bm, bs) ==
    IF bs = <<>> THEN bm ELSE PushBatches(PushBatch(bm, Head(bs)), Tail(bs))

\* A batch queue is [l1_blocks, batches].
LoadBatches(bq, bs, l1_origin) ==
    [ l1_blocks |-> Append(bq.l1_blocks, l1_origin),
      batches |-> PushBatches(bq.batches, bs) ]

\* decode::<Transaction>(t): byte string 0 does not decode.
DecodeTx(t) == IF t = 0 THEN None ELSE Some([nonce |-> t])

\* The transactions of a batch, decoded.
DecodedTxs(txs) == [i \in 1..Len(txs) |-> DecodeTx(txs[i]).val]

\* get_block_candidate: [bq, removed, ret, panic]; removed is the queue that
\* batches.remove took out of the map; panic is "decode", the unwrap() of a
\* transaction that does not decode (the entry is then still in the map),
\* "expect", the expect() on an empty queue, or "no".
GetBlockCandidate(bq, l2_head) ==
    LET next_timestamp == l2_head.time + L2_BLOCK_TIME
    IN IF next_timestamp \in DOMAIN bq.batches
       THEN LET candidates == bq.batches[next_timestamp]
            IN IF candidates = <<>>
               THEN [bq |-> bq, removed |-> <<>>, ret |-> None, panic |-> "expect"]
               ELSE LET out == Head(candidates)
                        n == Len(out.transactions)
                    IN IF \E i \in 1..n : ~DecodeTx(out.transactions[i]).some
                       THEN [ bq |-> bq, removed |-> <<>>, ret |-> None,
                              panic |-> "decode" ]
                       ELSE [ bq |-> [bq EXCEPT !.batches =
                                        [t \in DOMAIN bq.batches \ {next_timestamp}
                                            |-> bq.batches[t]]],
                              removed |-> candidates,
                              ret |-> Some(
                                  [ number |-> l2_head.number + 1,
                                    timestamp |-> next_timestamp,
                                    transactions |->
                                        DecodedTxs(out.transactions) ]),
                              panic |-> "no" ]
       ELSE [bq |-> bq, removed |-> <<>>, ret |-> None, panic |-> "no"]

\* ---------------------------------------------------------------- mpt crate
\* u8 arithmetic of the nibble codecs.
RECURSIVE BitOr(_, _)
BitOr(a, b) ==
    IF a = 0 THEN b
    ELSE IF b = 0 THEN a
    ELSE (IF a % 2 = 1 \/ b % 2 = 1 THEN 1 ELSE 0) + 2 * BitOr(a \div 2, b \div 2)

Shl4(b) == (b * 16) % 256
Shr4(b) == b \div 16
Low4(b) == b % 16

\* bytes_to_nibbles: high nibble, then low nibble, of each byte.
RECURSIVE BytesToNibbles(_)
BytesToNibbles(key) ==
    IF key = <<>> THEN <<>>
    ELSE << Shr4(Head(key)), Low4(Head(key)) >> \o BytesToNibbles(Tail(key))

\* The loop over key.chunks_exact(2): one byte per whole pair.
RECURSIVE PackPairs(_)
PackPairs(key) ==
    IF Len(key) < 2 THEN <<>>
    ELSE << BitOr(Shl4(key[1]), key[2]) >> \o PackPairs(Tail(Tail(key)))

\* NibblesToCompact that never moves the first nibble into the first byte.
NibblesToCompact_NoOddNibble(nibbles, extension) ==
    LET even == Len(nibbles) % 2 = 0
        first == Shl4(IF extension THEN (IF even THEN 0 ELSE 1)
                                   ELSE (IF even THEN 2 ELSE 3))
    IN << first >> \o PackPairs(nibbles)

NibblesToCompact(nibbles, extension) ==
    LET even == Len(nibbles) % 2 = 0
        first == Shl4(IF extension THEN (IF even THEN 0 ELSE 1)
                                   ELSE (IF even THEN 2 ELSE 3))
        odd == nibbles # <<>> /\ ~even
    IN << IF odd THEN BitOr(first, nibbles[1]) ELSE first >>
       \o PackPairs(IF odd THEN Tail(nibbles) ELSE nibbles)

\* The loop over &compact[1..]: two nibbles per byte.
RECURSIVE UnpackBytes(_)
UnpackBytes(bytes) ==
    IF bytes = <<>> THEN <<>>
    ELSE << Shr4(Head(bytes)), Low4(Head(bytes)) >> \o UnpackBytes(Tail(bytes))

\* compact_to_nibbles: [panic, nibbles, extension]; it panics on an empty
\* slice (compact[0]) and on a first high nibble above 3.
CompactToNibbles(compact) ==
    IF compact = <<>> \/ Shr4(compact[1]) > 3
    THEN [panic |-> TRUE, nibbles |-> <<>>, extension |-> FALSE]
    ELSE LET tag == Shr4(compact[1])
             even == tag \in {0, 2}
         IN [ panic |-> FALSE,
              nibbles |-> (IF even THEN <<>> ELSE << Low4(compact[1]) >>)
                          \o UnpackBytes(Tail(compact)),
              extension |-> tag \in {0, 1} ]

\* Nodes.  The hash fields are left out: nothing writes them (Node::hash is
\* todo!()), and so is MPT.db, which insert never touches.
NodeEmpty == [kind |-> "Empty"]
ValueNode(value) == [kind |-> "Value", value |-> value]
ExtensionNode(nibbles, child) ==
    [kind |-> "Extension", nibbles |-> nibbles, child |-> child]
BranchNode(children, branch_value) ==
    [kind |-> "Branch", children |-> children, branch_value |-> branch_value]

BranchDefault == BranchNode([i \in 0..15 |-> NodeEmpty], None)

BranchNewWithNode(key, node) == [BranchDefault EXCEPT !.children[key] = node]

\* BranchNewWithValue that leaves the value behind.
BranchNewWithValue_DropsValue(value) == BranchDefault

BranchNewWithValue(value) == [BranchDefault EXCEPT !.branch_value = Some(value)]

NodeNew(nibbles, value) ==
    IF nibbles = <<>> THEN ValueNode(value)
    ELSE ExtensionNode(nibbles, ValueNode(value))

\* NodeNewWithNode that wraps the child whatever the path.
NodeNewWithNode_AlwaysWraps(nibbles, child) ==
    ExtensionNode(nibbles, child)

NodeNewWithNode(nibbles, child) ==
    IF nibbles = <<>> THEN child ELSE ExtensionNode(nibbles, child)

\* match_paths: the common prefix and what is left of the key and the path.
RECURSIVE CommonLen(_, _)
CommonLen(key, path) ==
    IF key = <<>> \/ path = <<>> \/ Head(key) # Head(path) THEN 0
    ELSE 1 + CommonLen(Tail(key), Tail(path))

MatchPaths(key, path) ==
    LET i == CommonLen(key, path)
    IN [ common |-> SubSeq(key, 1, i),
         key |-> SubSeq(key, i + 1, Len(key)),
         path |-> SubSeq(path, i + 1, Len(path)) ]

NoPanic(node) == [panic |-> "no", node |-> node]
Panic(why) == [panic |-> why, node |-> NodeEmpty]

\* Node::insert and BranchNode::insert.  NodeInsert is [panic, node], panic
\* naming the panic! or unwrap that ended it.  BranchInsert is [panic, ret],
\* ret the Option<Self> it returns.
RECURSIVE NodeInsert(_, _, _)
RECURSIVE BranchInsert(_, _, _)
BranchInsert(branch, nibbles, value) ==
    IF nibbles = <<>>
    THEN IF branch.branch_value.some
         THEN [panic |-> "no", ret |-> None]
         ELSE [panic |-> "no",
               ret |-> Some([branch EXCEPT !.branch_value = Some(ValueNode(value))])]
    ELSE LET i == nibbles[1]
             r == NodeInsert(branch.children[i], Tail(nibbles), value)
         IN IF r.panic # "no" THEN [panic |-> r.panic, ret |-> None]
            ELSE [panic |-> "no",
                  ret |-> Some([branch EXCEPT !.children[i] = r.node])]

\* The .unwrap() on what BranchNode::insert returns.
Unwrap(r) ==
    IF r.panic # "no" THEN Panic(r.panic)
    ELSE IF ~r.ret.some THEN Panic("unwrap")
    ELSE NoPanic(r.ret.val)

NodeInsert(node, nibbles, value) ==
    CASE node.kind = "Empty" -> NoPanic(NodeNew(nibbles, value))
      [] node.kind = "Branch" -> Unwrap(BranchInsert(node, nibbles, value))
      [] node.kind = "Value" -> Panic("value")
      [] node.kind = "Extension" ->
            LET m == MatchPaths(nibbles, node.nibbles)
            IN IF m.key = <<>> /\ m.path = <<>> THEN Panic("same")
               ELSE IF m.path = <<>> /\ node.child.kind \in {"Empty", "Extension"}
               THEN Panic("child")
               ELSE LET start ==
                            IF m.path = <<>>
                            THEN IF node.child.kind = "Value"
                                 THEN BranchNewWithValue(node.child)
                                 ELSE node.child
                            ELSE BranchNewWithNode(
                                     m.path[1],
                                     NodeNewWithNode(Tail(m.path), node.child))
                        b == Unwrap(BranchInsert(start, m.key, value))
                    IN IF b.panic # "no" THEN b
                       ELSE IF m.common = <<>> THEN b
                       ELSE NoPanic(ExtensionNode(m.common, b.node))

\* -------------------------------------------------------------------- state
VARIABLES
    channel_bank,    \* Derivation.channel_bank
    batch_queue,     \* Derivation.batch_queue
    pc,              \* position inside load_l1_data, or "idle"
    l1_block,        \* number of the L1 block of the current/last load_l1_data
    nblocks,         \* load_l1_data calls so far
    nframes,         \* frames consumed by load_frames so far
    batches,         \* the local `batches` vector of load_l1_data
    op,              \* the operation that ran last
    frame_arg,       \* the frame of the last ChannelBank::load_frame, until
                     \* the drain loop starts
    ch,              \* the channel get_channel_data removed last, if any
    ret_data,        \* what get_channel_data returned last
    head_arg,        \* the l2_head of the last next_l2_attributes
    ret_cand,        \* what next_l2_attributes returned last
    discarded,       \* the queue the last next_l2_attributes removed
    panicked,        \* "no", or the panic that ended the run
    first_seen,      \* history: per live channel, the frame that created it
    first_ever,      \* history: per timestamp, the first batch ever loaded
    first_since,     \* history: per timestamp, the first batch loaded since
                     \* a candidate for it was last returned
    root,            \* MPT.root
    inserted,        \* history: the value MPT::insert stored for each key
    insert_arg,      \* the (k, v) of the last MPT::insert
    path_arg,        \* the (nibbles, extension) given to nibbles_to_compact
    compact_ret,     \* what nibbles_to_compact returned
    nibbles_ret      \* what compact_to_nibbles returned for compact_ret

vars == << channel_bank, batch_queue, pc, l1_block, nblocks, nframes, batches,
           op, frame_arg, ch, ret_data, head_arg, ret_cand, discarded,
           panicked,
           first_seen, first_ever, first_since, root, inserted, insert_arg,
           path_arg, compact_ret, nibbles_ret >>

derivation_vars ==
    << channel_bank, batch_queue, pc, l1_block, nblocks, nframes, batches,
       frame_arg, ch, ret_data, head_arg, ret_cand, discarded, first_seen,
       first_ever, first_since >>

mpt_vars == << root, inserted, insert_arg >>

codec_vars == << path_arg, compact_ret, nibbles_ret >>

\* The L2 chain starts at time 0 and advances by L2_BLOCK_TIME per block.
L2Heads == {[number |-> n, time |-> n * L2_BLOCK_TIME] : n \in 0..MaxL2Number}

NoHead == [number |-> 0, time |-> 0]

\* Derivation::default(), and no operation run yet.
DerivationInit ==
    /\ channel_bank = Bank(<<>>, <<>>)
    /\ batch_queue = [l1_blocks |-> <<>>, batches |-> <<>>]
    /\ pc = "idle"
    /\ l1_block = 0
    /\ nblocks = 0
    /\ nframes = 0
    /\ batches = <<>>
    /\ op = "new"
    /\ frame_arg = None
    /\ ch = None
    /\ ret_data = None
    /\ head_arg = NoHead
    /\ ret_cand = None
    /\ discarded = <<>>
    /\ panicked = "no"
    /\ first_seen = <<>>
    /\ first_ever = <<>>
    /\ first_since = <<>>

\* MPT::new().
MptInit ==
    /\ root = NodeEmpty
    /\ inserted = <<>>
    /\ insert_arg = None

CodecIdle ==
    /\ path_arg = None
    /\ compact_ret = None
    /\ nibbles_ret = None

Init == DerivationInit /\ MptInit /\ CodecIdle

Running == panicked = "no"

\* The channels of bank1, each with the time its current incarnation was
\* created: kept from fs if it was live before, else `now`.
Seen(fs, bank0, bank1, now) ==
    [id \in DOMAIN bank1.channels_map |->
        IF id \in DOMAIN bank0.channels_map THEN fs[id] ELSE now]

\* The first batch per timestamp, after the batches bs arrive in order.
RECURSIVE Firsts(_, _)
Firsts(first, bs) ==
    IF bs = <<>> THEN first
    ELSE LET b == Head(bs)
         IN Firsts([t \in DOMAIN first \cup {b.timestamp} |->
                       IF t \in DOMAIN first THEN first[t] ELSE b],
                   Tail(bs))

\* Derivation::load_l1_data is entered with the next L1 block: the first has
\* number 0, later ones advance by CHANNEL_TIMEOUT or by one more.
LoadL1Data(step) ==
    /\ Running /\ pc = "idle" /\ nblocks < MaxBlocks
    /\ l1_block' = IF nblocks = 0 THEN 0 ELSE l1_block + step
    /\ nblocks' = nblocks + 1
    /\ batches' = <<>>
    /\ pc' = "load_frames"
    /\ op' = "load_l1_data"
    /\ ch' = None
    /\ ret_data' = None
    /\ head_arg' = NoHead
    /\ ret_cand' = None
    /\ discarded' = <<>>
    /\ UNCHANGED << channel_bank, batch_queue, nframes, frame_arg, panicked,
                    first_seen, first_ever, first_since >>
    /\ UNCHANGED << mpt_vars, codec_vars >>

\* One iteration of the for loop of ChannelBank::load_frames, the run having
\* room for `limit` frames in all.
LoadFrameWithin(frame, limit) ==
    /\ Running /\ pc = "load_frames" /\ nframes < limit
    /\ op' = "load_frame"
    /\ frame_arg' = Some(frame)
    /\ nframes' = nframes + 1
    /\ IF HeadReady(channel_bank)
       THEN /\ panicked' = "assert"
            /\ UNCHANGED << channel_bank, first_seen >>
       ELSE LET mid == BankInsertFrame(channel_bank, frame, l1_block)
                r == Prune(mid)
            IN /\ channel_bank' = r.bank
               /\ panicked' = IF r.panic THEN "expect" ELSE "no"
               /\ first_seen' =
                      Seen(Seen(first_seen, channel_bank, mid, nframes),
                           mid, r.bank, nframes)
    /\ UNCHANGED << batch_queue, pc, l1_block, nblocks, batches, ch, ret_data,
                    head_arg, ret_cand, discarded, first_ever, first_since >>
    /\ UNCHANGED << mpt_vars, codec_vars >>

\* The rest of load_l1_data, one evaluation of the while condition at a
\* time: the for loop of load_frames has ended, get_channel_data is called,
\* and either its data is turned into batches (the loop body) or the loop
\* ends and batch_queue.load_batches takes the batches collected.
Drain ==
    /\ Running /\ pc \in {"load_frames", "drain"}
    /\ op' = "get_channel_data"
    /\ frame_arg' = None
    /\ LET r == GetChannelData(channel_bank)
           b == ChannelBytesToBatches(r.ret.val)
       IN /\ channel_bank' = r.bank
          /\ ch' = r.ch
          /\ ret_data' = r.ret
          /\ first_seen' = Seen(first_seen, channel_bank, r.bank, nframes)
          /\ IF r.ret.some
             THEN /\ panicked' = IF b.panic THEN "zlib" ELSE "no"
                  /\ batches' = IF b.panic THEN batches ELSE batches \o b.batches
                  /\ pc' = "drain"
                  /\ UNCHANGED << batch_queue, first_ever, first_since >>
             ELSE /\ batch_queue' = LoadBatches(batch_queue, batches, l1_block)
                  /\ first_ever' = Firsts(first_ever, batches)
                  /\ first_since' = Firsts(first_since, batches)
                  /\ batches' = <<>>
                  /\ pc' = "idle"
                  /\ UNCHANGED panicked
    /\ UNCHANGED << l1_block, nblocks, nframes, head_arg, ret_cand, discarded >>
    /\ UNCHANGED << mpt_vars, codec_vars >>

\* Derivation::next_l2_attributes.
NextL2Attributes(l2_head) ==
    /\ Running /\ pc = "idle"
    /\ op' = "next_l2_attributes"
    /\ head_arg' = l2_head
    /\ LET r == GetBlockCandidate(batch_queue, l2_head)
       IN /\ batch_queue' = r.bq
          /\ ret_cand' = r.ret
          /\ discarded' = r.removed
          /\ panicked' = r.panic
          /\ first_since' =
                 IF r.ret.some
                 THEN [t \in DOMAIN first_since \ {r.ret.val.timestamp} |->
                          first_since[t]]
                 ELSE first_since
    /\ UNCHANGED << channel_bank, pc, l1_block, nblocks, nframes, batches,
                    frame_arg, ch, ret_data, first_seen, first_ever >>
    /\ UNCHANGED << mpt_vars, codec_vars >>

L1Steps == {CHANNEL_TIMEOUT, CHANNEL_TIMEOUT + 1}

\* Channel ids are interchangeable (the code only compares them) and the
\* bank keeps nothing of a removed channel, so a frame that opens a channel
\* uses the lowest id that is not live.
FrameIds ==
    LET live == DOMAIN channel_bank.channels_map
        free == ChannelIds \ live
    IN live \cup {id \in free : \A other \in free : id <= other}

LoadFrame(frame) == LoadFrameWithin(frame, MaxFrames)

LoadFramesWithin(limit) ==
    /\ pc = "load_frames"
    /\ \E id \in FrameIds, number \in FrameNumbers, data \in FrameDatas,
          is_last \in BOOLEAN :
          LoadFrameWithin([id |-> id, number |-> number, data |-> data,
                           is_last |-> is_last], limit)

LoadFrames == LoadFramesWithin(MaxFrames)

Next ==
    \/ \E step \in L1Steps : LoadL1Data(step)
    \/ LoadFrames
    \/ Drain
    \/ \E l2_head \in L2Heads : NextL2Attributes(l2_head)

Spec == Init /\ [][Next]_vars

\* The pipeline with its driver kept running: a started load_l1_data runs to
\* its end (the loops of main.rs:119 and main.rs:262 are finite), and the
\* caller goes on handing in L1 blocks and asking for L2 attributes.  Which
\* frames a block carries is up to the batcher.
FairSpec ==
    /\ Spec
    /\ WF_vars(Drain)
    /\ WF_vars(\E step \in L1Steps : LoadL1Data(step))
    /\ WF_vars(\E l2_head \in L2Heads : NextL2Attributes(l2_head))

\* The same pipeline with room for one more frame: two frames that make a
\* channel time out and a frame for a second channel.
NextMoreFrames ==
    \/ \E step \in L1Steps : LoadL1Data(step)
    \/ LoadFramesWithin(MaxFrames + 1)
    \/ Drain
    \/ \E l2_head \in L2Heads : NextL2Attributes(l2_head)

SpecMoreFrames == Init /\ [][NextMoreFrames]_vars

\* ------------------------------------------------------------------ SpecMPT
\* Keys are byte strings over two bytes, 0x12 and 0x13, that share their high
\* nibble; values are one byte long.
KeyBytes == {18, 19}
Keys == UNION {[1..n -> KeyBytes] : n \in 0..MaxKeyLen}
MptValues == {<<7>>, <<8>>}

\* MPT::insert(k, v).  The root is taken out of the trie before the insert
\* runs, so a panic leaves Node::Empty behind.
MPTInsert(k, v) ==
    /\ Running /\ Cardinality(DOMAIN inserted) < MaxInserts
    /\ op' = "insert"
    /\ insert_arg' = Some([k |-> k, v |-> v])
    /\ LET r == NodeInsert(root, BytesToNibbles(k), v)
       IN /\ root' = r.node
          /\ panicked' = r.panic
          /\ inserted' = IF r.panic = "no"
                         THEN [x \in DOMAIN inserted \cup {k} |->
                                  IF x = k THEN v ELSE inserted[x]]
                         ELSE inserted
    /\ UNCHANGED << derivation_vars, codec_vars >>

MptNext == \E k \in Keys, v \in MptValues : MPTInsert(k, v)

SpecMPT == Init /\ [][MptNext]_vars

\* -------------------------------------------------------------- SpecCompact
Nibbles == 0..15
NibblePaths == UNION {[1..n -> Nibbles] : n \in 0..MaxNibbles}

\* The codec is given any nibble path and either flag.
CodecInit ==
    /\ DerivationInit /\ MptInit
    /\ path_arg \in {Some([nibbles |-> p, extension |-> e]) :
                         p \in NibblePaths, e \in BOOLEAN}
    /\ compact_ret = None
    /\ nibbles_ret = None

CallNibblesToCompact ==
    /\ Running /\ op = "new"
    /\ op' = "nibbles_to_compact"
    /\ compact_ret' =
           Some(NibblesToCompact(path_arg.val.nibbles, path_arg.val.extension))
    /\ UNCHANGED << derivation_vars, mpt_vars, panicked, path_arg, nibbles_ret >>

CallCompactToNibbles ==
    /\ Running /\ op = "nibbles_to_compact"
    /\ op' = "compact_to_nibbles"
    /\ LET r == CompactToNibbles(compact_ret.val)
       IN /\ panicked' = IF r.panic THEN "compact" ELSE "no"
          /\ nibbles_ret' =
                 IF r.panic THEN None
                 ELSE Some([nibbles |-> r.nibbles, extension |-> r.extension])
    /\ UNCHANGED << derivation_vars, mpt_vars, path_arg, compact_ret >>

CodecNext == CallNibblesToCompact \/ CallCompactToNibbles

SpecCompact == CodecInit /\ [][CodecNext]_vars

\* ------------------------------------------------------------------- claims
Channels == {channel_bank.channels_map[id] : id \in DOMAIN channel_bank.channels_map}

\* C1: the assertion of ChannelBank::load_frame, that the head channel is not
\* ready when a frame is loaded, never fails, whatever frames the calls of
\* load_l1_data carry.
C1_AssertionNeverFails == panicked # "assert"

\* C2: a closed channel stores no frame whose number is above its
\* end_frame_number.
C2_NoFrameAboveEnd ==
    \A c \in Channels :
        c.end_frame_number.some =>
            \A k \in DOMAIN c.frames : k <= c.end_frame_number.val

\* The bank without its k oldest channels.
DropOldest(bank, k) ==
    LET cbc == bank.channels_by_creation
        gone == {cbc[i] : i \in 1..k}
    IN Bank([id \in DOMAIN bank.channels_map \ gone |-> bank.channels_map[id]],
            SubSeq(cbc, k + 1, Len(cbc)))

\* A frame load that returns leaves the bank as it is after the frame went to
\* its channel, less its k oldest channels, k the number of channels that
\* went: with one fewer gone the total would still be over the cap.
PrunedOldestFirst ==
    (op' = "load_frame" /\ panicked' = "no") =>
        LET mid == BankInsertFrame(channel_bank, frame_arg'.val, l1_block)
            k == Len(mid.channels_by_creation)
                     - Len(channel_bank'.channels_by_creation)
        IN /\ k >= 0
           /\ channel_bank' = DropOldest(mid, k)
           /\ k > 0 => TotalSize(DropOldest(mid, k - 1)) > MAX_CHANNEL_BANK_SIZE

\* C3: after every frame load and every get_channel_data the sizes of the
\* channels in the bank sum to at most MAX_CHANNEL_BANK_SIZE, and pruning
\* removes the oldest channels first and no more of them than the cap needs.
C3_BankSizeBounded ==
    /\ [](TotalSize(channel_bank) <= MAX_CHANNEL_BANK_SIZE)
    /\ [][PrunedOldestFirst]_vars

\* Two frames into the first call, with nothing drained yet, the bank holds
\* only the channel the second frame opened: the first was pruned.
C3_Witness ==
    /\ panicked = "no" /\ pc = "load_frames" /\ nblocks = 1 /\ nframes = 2
    /\ Len(channel_bank.channels_by_creation) = 1
    /\ first_seen[Head(channel_bank.channels_by_creation)] = 1
    /\ TotalSize(channel_bank) > 0

\* C4: get_channel_data reads the bank strictly in creation order.  When the
\* oldest channel is not ready it returns None and leaves the channel map and
\* the creation order as they are; data it returns is the oldest channel's.
C4_StrictCreationOrder ==
    [][ op' = "get_channel_data" =>
          /\ ~HeadReady(channel_bank) =>
                 /\ ret_data' = None
                 /\ channel_bank' = channel_bank
          /\ ret_data'.some =>
                 /\ HeadReady(channel_bank)
                 /\ ret_data'.val = ChannelData(Peek(channel_bank).val)
                 /\ Head(channel_bank.channels_by_creation)
                        \notin DOMAIN channel_bank'.channels_map ]_vars

\* get_channel_data has just returned None with an unready channel at the
\* head and a ready one behind it.
C4_Witness ==
    /\ op = "get_channel_data" /\ ret_data = None
    /\ Peek(channel_bank).some /\ ~HeadReady(channel_bank)
    /\ \E i \in 2..Len(channel_bank.channels_by_creation) :
           IsReady(channel_bank.channels_map[channel_bank.channels_by_creation[i]])

\* C5: when the oldest channel is ready, get_channel_data removes it from the
\* channel map and from the creation order, and returns its data exactly when
\* highest_l1_block.number - lowest_l1_block.number <= CHANNEL_TIMEOUT.
C5_TimeoutBoundary ==
    [][ (op' = "get_channel_data" /\ HeadReady(channel_bank)) =>
          LET c == Peek(channel_bank).val
              cbc == channel_bank.channels_by_creation
          IN /\ channel_bank'.channels_by_creation = Tail(cbc)
             /\ DOMAIN channel_bank'.channels_map =
                    DOMAIN channel_bank.channels_map \ {Head(cbc)}
             /\ ret_data'.some <=>
                    c.highest_l1_block - c.lowest_l1_block <= CHANNEL_TIMEOUT
             /\ ret_data'.some => ret_data'.val = ChannelData(c) ]_vars

\* get_channel_data has returned the data of a channel that spans exactly
\* CHANNEL_TIMEOUT blocks.
C5_Witness ==
    /\ op = "get_channel_data" /\ ch.some /\ ret_data.some
    /\ ch.val.highest_l1_block - ch.val.lowest_l1_block = CHANNEL_TIMEOUT

\* C6: get_block_candidate returns a candidate exactly when the queue has an
\* entry for t = l2_head.time + L2_BLOCK_TIME; the candidate has number
\* l2_head.number + 1, timestamp t and the transactions of the entry's front
\* batch; with no entry for t the queue is unchanged, and the entries of the
\* other timestamps are unchanged in either case.
C6_CandidateIffEntry ==
    [][ op' = "next_l2_attributes" =>
          LET t == head_arg'.time + L2_BLOCK_TIME
              bm0 == batch_queue.batches
              bm1 == batch_queue'.batches
          IN /\ ret_cand'.some <=> t \in DOMAIN bm0
             /\ ret_cand'.some =>
                    /\ ret_cand'.val.number = head_arg'.number + 1
                    /\ ret_cand'.val.timestamp = t
                    /\ ret_cand'.val.transactions =
                           DecodedTxs(Head(bm0[t]).transactions)
             /\ t \notin DOMAIN bm0 =>
                    ret_cand' = None /\ batch_queue' = batch_queue
             /\ DOMAIN bm1 \ {t} = DOMAIN bm0 \ {t}
             /\ \A u \in DOMAIN bm0 \ {t} : bm1[u] = bm0[u] ]_vars

\* What holds of a candidate returned for timestamp t, `first` being the
\* batch that won: it carries that batch, the whole entry for t is gone, and
\* the same call made again at once returns None.
FirstWins(first) ==
    /\ (op' = "next_l2_attributes" /\ ret_cand'.some) =>
           LET t == ret_cand'.val.timestamp
           IN /\ t \in DOMAIN first
              /\ ret_cand'.val.transactions = DecodedTxs(first[t].transactions)
              /\ t \notin DOMAIN batch_queue'.batches
    /\ ( /\ op = "next_l2_attributes" /\ ret_cand.some
         /\ op' = "next_l2_attributes" /\ head_arg' = head_arg ) =>
           ret_cand' = None

\* C7, as stated: the candidate returned for t carries the earliest of all the
\* batches ever loaded for t.
C7_FirstEverLoadedWins == [][FirstWins(first_ever)]_vars

\* C7, amended: the candidate returned for t carries the earliest of the
\* batches loaded for t since a candidate for t was last returned.
C7_FirstLoadedSinceWins == [][FirstWins(first_since)]_vars

\* A candidate was returned from an entry that held two different batches.
C7_Witness ==
    /\ op = "next_l2_attributes" /\ ret_cand.some
    /\ Len(discarded) >= 2
    /\ discarded[1] # discarded[2]

\* C8: the size of every channel is the sum of the sizes of the frames it
\* stores.
C8_SizeIsSumOfFrames ==
    \A c \in Channels : c.size = SumFrameSizes(c.frames, DOMAIN c.frames)

\* Two frames went to the one channel of the first call: the first was
\* stored, the second ignored.
C8_Witness ==
    /\ panicked = "no" /\ pc = "load_frames" /\ nblocks = 1 /\ nframes = 2
    /\ \E c \in Channels :
          /\ first_seen[c.id] = 0
          /\ Len(channel_bank.channels_by_creation) = 1
          /\ Cardinality(DOMAIN c.frames) = 1
          /\ c.size > 0

\* C9: the creation order holds exactly the ids of the channel map, each
\* once, in the order in which the first frames of the channels arrived.
C9_CreationOrderExact ==
    LET cbc == channel_bank.channels_by_creation
    IN /\ {cbc[i] : i \in 1..Len(cbc)} = DOMAIN channel_bank.channels_map
       /\ \A i, j \in 1..Len(cbc) : i < j =>
              /\ cbc[i] # cbc[j]
              /\ first_seen[cbc[i]] < first_seen[cbc[j]]

\* Two channels are live at the end of a call, the older one first.
C9_Witness ==
    /\ panicked = "no" /\ pc = "idle"
    /\ Len(channel_bank.channels_by_creation) = 2
    /\ first_seen[channel_bank.channels_by_creation[1]] = 0
    /\ first_seen[channel_bank.channels_by_creation[2]] = 1

\* C10: neither a channel payload that is no zlib stream nor a transaction
\* that does not decode aborts load_l1_data or next_l2_attributes.
C10_MalformedNeverAborts == panicked \notin {"zlib", "decode"}

\* C11: for every nibble path and either flag, compact_to_nibbles gives back
\* the path and the flag nibbles_to_compact was given, and the high nibble of
\* the first compact byte is 0, 1, 2, 3 for (extension, even), (extension,
\* odd), (leaf, even), (leaf, odd).
C11_CompactRoundTrip ==
    /\ compact_ret.some =>
           LET p == path_arg.val
               high == compact_ret.val[1] \div 16
           IN /\ (p.extension /\ Len(p.nibbles) % 2 = 0) => high = 0
              /\ (p.extension /\ Len(p.nibbles) % 2 = 1) => high = 1
              /\ (~p.extension /\ Len(p.nibbles) % 2 = 0) => high = 2
              /\ (~p.extension /\ Len(p.nibbles) % 2 = 1) => high = 3
    /\ op = "compact_to_nibbles" =>
           /\ panicked = "no"
           /\ nibbles_ret = path_arg

\* A leaf path of three nibbles went through both functions: two bytes.
C11_Witness ==
    /\ op = "compact_to_nibbles"
    /\ path_arg.val = [nibbles |-> <<10, 0, 15>>, extension |-> FALSE]
    /\ compact_ret.val = <<58, 15>>
    /\ nibbles_ret.some

\* C12: MPT::insert fails exactly when the key is already in the trie: a key
\* distinct from all keys inserted before, a proper prefix or extension of
\* one of them included, is inserted without a panic, and a key already
\* present always panics.
C12_InsertFailsIffPresent ==
    [][ op' = "insert" =>
          ((panicked' # "no") <=> (insert_arg'.val.k \in DOMAIN inserted)) ]_vars

\* C13: when an open channel accepts a closing frame whose number n is below
\* that of a frame it stores, the load evicts every stored frame above n and
\* takes their sizes off the channel's size; with frames 0..n then all stored
\* the channel is ready.
C13_LateLastFrameEvicts ==
    [][ ( /\ op' = "load_frame" /\ panicked' = "no"
          /\ frame_arg'.val.id \in DOMAIN channel_bank.channels_map
          /\ frame_arg'.val.id \in DOMAIN channel_bank'.channels_map
          /\ frame_arg'.val.is_last
          /\ LET c == channel_bank.channels_map[frame_arg'.val.id]
             IN /\ ~Closed(c)
                /\ frame_arg'.val.number \notin DOMAIN c.frames
                /\ \E k \in DOMAIN c.frames : k > frame_arg'.val.number ) =>
        LET frame == frame_arg'.val
            c == channel_bank.channels_map[frame.id]
            c1 == channel_bank'.channels_map[frame.id]
            evicted == {k \in DOMAIN c.frames : k > frame.number}
        IN /\ \A k \in DOMAIN c1.frames : k <= frame.number
           /\ c1.size = c.size + FrameSize(frame) - SumFrameSizes(c.frames, evicted)
           /\ (\A i \in 0..frame.number : i \in DOMAIN c1.frames) => IsReady(c1)
      ]_vars

\* C14: whenever load_l1_data has returned, the oldest channel left in the
\* bank, if there is one, is not ready: the call removed every ready channel
\* that reached the head, one exposed by the drop of a timed-out head
\* included.
C14_NoReadyHeadAfterLoad ==
    (pc = "idle" /\ panicked = "no") => ~HeadReady(channel_bank)

\* load_l1_data has returned for a block more than CHANNEL_TIMEOUT past the
\* block that opened channel id, and id is still the oldest channel, not
\* ready, with a complete channel behind it.
StuckHead(id) ==
    /\ pc = "idle" /\ panicked = "no"
    /\ Peek(channel_bank).some
    /\ Peek(channel_bank).val.id = id
    /\ ~HeadReady(channel_bank)
    /\ l1_block - Peek(channel_bank).val.lowest_l1_block > CHANNEL_TIMEOUT
    /\ \E c \in Channels : c.id # id /\ IsReady(c)

\* C15: a stuck channel does not stall the pipeline.  An oldest channel that
\* is not ready once blocks more than CHANNEL_TIMEOUT past its first frame
\* are ingested is eventually removed from the bank (unless it becomes ready
\* after all), which lets the complete channel behind it be drained.
C15_StuckChannelIsRemoved ==
    \A id \in ChannelIds :
        StuckHead(id) ~>
            \/ id \notin DOMAIN channel_bank.channels_map
            \/ IsReady(channel_bank.channels_map[id])

\* C16: Channel::load_frame leaves the channel as it is, in all six fields,
\* when the frame's id is not the channel's, or its number is already stored,
\* or the channel is closed and the frame is a closing one, or the channel is
\* closed and the frame's number is above highest_frame_number.  A frame the
\* bank hands to a channel that ignores it changes nothing in the bank.
C16_IgnoredFrameChangesNothing ==
    [][ (op' = "load_frame" /\ panicked' = "no") =>
          LET frame == frame_arg'.val
          IN \A id \in DOMAIN channel_bank.channels_map :
                LET c == channel_bank.channels_map[id]
                    ignored ==
                        \/ c.id # frame.id
                        \/ frame.number \in DOMAIN c.frames
                        \/ c.end_frame_number.some /\ frame.is_last
                        \/ c.end_frame_number.some
                             /\ frame.number > c.highest_frame_number
                IN ignored =>
                       /\ ChannelLoadFrame(c, frame, l1_block) = c
                       /\ id = frame.id => channel_bank' = channel_bank
      ]_vars

\* A second closing frame, with a number the channel does not store, was
\* handed to a closed channel and is not in it.
C16_Witness ==
    /\ op = "load_frame" /\ panicked = "no"
    /\ frame_arg.some
    /\ frame_arg.val.is_last
    /\ \E c \in Channels :
          /\ c.id = frame_arg.val.id
          /\ Closed(c)
          /\ c.end_frame_number.val # frame_arg.val.number
          /\ frame_arg.val.number \notin DOMAIN c.frames
          /\ frame_arg.val.number < c.highest_frame_number

\* The data of frames 0..n, lowest number first.
RECURSIVE DataUpTo(_, _)
DataUpTo(frames, n) ==
    IF n < 0 THEN <<>> ELSE DataUpTo(frames, n - 1) \o frames[n].data

\* C17: the data get_channel_data returns for a ready channel whose
\* end_frame_number is n is the data of its frames 0, 1, ..., n in that
\* order, whatever the order the frames came in and whatever other frame
\* numbers the channel holds; and a frame a channel stores is the first one
\* it accepted for that number: a new frame is stored as it came, a stored
\* one is never replaced.
C17_DataInFrameOrder ==
    [][ /\ (op' = "get_channel_data" /\ ret_data'.some) =>
              /\ ch'.some
              /\ ch'.val = Peek(channel_bank).val
              /\ ret_data'.val =
                     DataUpTo(ch'.val.frames, ch'.val.end_frame_number.val)
        /\ \A id \in DOMAIN channel_bank.channels_map
                       \cap DOMAIN channel_bank'.channels_map :
              LET c == channel_bank.channels_map[id]
                  c1 == channel_bank'.channels_map[id]
              IN /\ \A k \in DOMAIN c.frames \cap DOMAIN c1.frames :
                        c1.frames[k] = c.frames[k]
                 /\ \A k \in DOMAIN c1.frames \ DOMAIN c.frames :
                        c1.frames[k] = frame_arg'.val
      ]_vars

\* get_channel_data returned the data of a channel of two frames with
\* different data that came in two L1 blocks.
C17_Witness ==
    /\ op = "get_channel_data" /\ ret_data.some /\ ch.some
    /\ DOMAIN ch.val.frames = {0, 1}
    /\ ch.val.end_frame_number = Some(1)
    /\ ch.val.frames[0].data # ch.val.frames[1].data
    /\ ch.val.highest_l1_block > ch.val.lowest_l1_block
    /\ ret_data.val = ch.val.frames[0].data \o ch.val.frames[1].data

\* The frames the channel stores are frames of one run 0..n in which only
\* frame n closes: no stored frame closes but the one with the highest number.
OneClosingFrame(c) ==
    \A k \in DOMAIN c.frames :
        c.frames[k].is_last => \A j \in DOMAIN c.frames : j <= k

\* C18: a channel is ready exactly when it is closed, with end_frame_number
\* n, and stores all of frames 0..n.  Fed the frames 0..n of which only frame
\* n closes, in any order, it is ready once all of them are stored and not
\* before.  A ready channel stays ready as long as it is in the bank.
C18_ReadyWhenComplete ==
    /\ [](\A c \in Channels :
            /\ IsReady(c) <=>
                   /\ c.end_frame_number.some
                   /\ \A i \in 0..MaxFrameNumber :
                          i <= c.end_frame_number.val => i \in DOMAIN c.frames
            /\ OneClosingFrame(c) =>
                   (IsReady(c) <=>
                        \E n \in DOMAIN c.frames :
                            /\ c.frames[n].is_last
                            /\ DOMAIN c.frames = 0..n))
    /\ [][ \A id \in DOMAIN channel_bank.channels_map
                       \cap DOMAIN channel_bank'.channels_map :
              IsReady(channel_bank.channels_map[id])
                  => IsReady(channel_bank'.channels_map[id]) ]_vars

\* The closing frame 1 came first: the channel became ready with the load of
\* frame 0.
C18_Witness ==
    /\ op = "load_frame" /\ panicked = "no"
    /\ frame_arg.some
    /\ frame_arg.val.number = 0 /\ ~frame_arg.val.is_last
    /\ \E c \in Channels :
          /\ c.id = frame_arg.val.id
          /\ c.frames[0] = frame_arg.val
          /\ c.end_frame_number = Some(1)
          /\ IsReady(c)

\* Every Extension at or below node has a non-empty path and a Branch or a
\* Value as its child.
RECURSIVE ExtensionsWellFormed(_)
ExtensionsWellFormed(node) ==
    CASE node.kind = "Extension" ->
            /\ node.nibbles # <<>>
            /\ node.child.kind \in {"Branch", "Value"}
            /\ ExtensionsWellFormed(node.child)
      [] node.kind = "Branch" ->
            \A i \in DOMAIN node.children : ExtensionsWellFormed(node.children[i])
      [] OTHER -> TRUE

\* C19: after any sequence of successful inserts every Extension node of the
\* trie has a non-empty nibble path and a child that is a Branch or a Value,
\* so ExtensionNode::compact does not panic on any of them.
C19_ExtensionsWellFormed ==
    /\ panicked = "no" => ExtensionsWellFormed(root)
    /\ panicked # "child"

\* The root is an Extension over a Branch, and a slot of that Branch holds an
\* Extension made by Node::new_with_node, with a Branch below it.
C19_Witness ==
    /\ panicked = "no"
    /\ root.kind = "Extension"
    /\ root.child.kind = "Branch"
    /\ \E i \in 0..15 :
          /\ root.child.children[i].kind = "Extension"
          /\ root.child.children[i].child.kind = "Branch"

\* The pairs handed to MPT::insert so far, the last one included when it is
\* a new key that made the insert panic.
Offered ==
    IF insert_arg.some /\ insert_arg.val.k \notin DOMAIN inserted
    THEN [x \in DOMAIN inserted \cup {insert_arg.val.k} |->
             IF x = insert_arg.val.k THEN insert_arg.val.v ELSE inserted[x]]
    ELSE inserted

\* The orders in which the keys of a set can be inserted.
Orders(keys) ==
    {order \in [1..Cardinality(keys) -> keys] :
        \A i, j \in DOMAIN order : i # j => order[i] # order[j]}

\* What inserting the pairs of map m in the given order, from pair i on,
\* makes of the trie r = [panic, node].
RECURSIVE InsertInOrder(_, _, _, _)
InsertInOrder(r, m, order, i) ==
    IF i > Len(order) \/ r.panic # "no" THEN r
    ELSE InsertInOrder(
             NodeInsert(r.node, BytesToNibbles(order[i]), m[order[i]]),
             m, order, i + 1)

\* C20: insertion is order-independent.  The distinct keys offered so far,
\* inserted with their values in any other order, either all go in and give
\* the trie the run has, node for node, or fail as the run failed.
C20_OrderIndependent ==
    (insert_arg.some
       /\ (panicked # "no" => insert_arg.val.k \notin DOMAIN inserted)) =>
        \A order \in Orders(DOMAIN Offered) :
            LET r == InsertInOrder(NoPanic(NodeEmpty), Offered, order, 1)
            IN IF panicked = "no"
               THEN r.panic = "no" /\ r.node = root
               ELSE r.panic # "no"

\* The value found by following a nibble path from node: through the whole
\* path of an Extension, through the slot of a Branch, to a Value node or a
\* branch_value where the path ends.
RECURSIVE Lookup(_, _)
Lookup(node, path) ==
    CASE node.kind = "Value" ->
            IF path = <<>> THEN Some(node.value) ELSE None
      [] node.kind = "Extension" ->
            IF /\ Len(path) >= Len(node.nibbles)
               /\ SubSeq(path, 1, Len(node.nibbles)) = node.nibbles
            THEN Lookup(node.child,
                        SubSeq(path, Len(node.nibbles) + 1, Len(path)))
            ELSE None
      [] node.kind = "Branch" ->
            IF path = <<>>
            THEN IF node.branch_value.some
                 THEN Some(node.branch_value.val.value)
                 ELSE None
            ELSE Lookup(node.children[path[1]], Tail(path))
      [] OTHER -> None

\* Every <<path, value>> that node holds, the paths starting with prefix.
RECURSIVE Entries(_, _)
Entries(node, prefix) ==
    CASE node.kind = "Value" -> {<<prefix, node.value>>}
      [] node.kind = "Extension" ->
            Entries(node.child, prefix \o node.nibbles)
      [] node.kind = "Branch" ->
            (IF node.branch_value.some
             THEN {<<prefix, node.branch_value.val.value>>}
             ELSE {})
            \cup UNION {Entries(node.children[i], prefix \o <<i>>) :
                           i \in DOMAIN node.children}
      [] OTHER -> {}

\* C21: after successful inserts of distinct keys the trie is the inserted
\* map.  The nibble path of every inserted key leads from the root to a
\* Value node or a branch_value with that key's value, the trie holds a value
\* on no other path, and an insert that succeeds is of a key not inserted
\* before and leaves the values of the keys inserted before it as they were.
C21_TrieIsInsertedMap ==
    /\ [](panicked = "no" =>
            /\ \A k \in DOMAIN inserted :
                   Lookup(root, BytesToNibbles(k)) = Some(inserted[k])
            /\ Entries(root, <<>>) =
                   {<<BytesToNibbles(k), inserted[k]>> : k \in DOMAIN inserted})
    /\ [][ (op' = "insert" /\ panicked' = "no") =>
              /\ insert_arg'.val.k \notin DOMAIN inserted
              /\ \A k \in DOMAIN inserted :
                     Lookup(root', BytesToNibbles(k))
                         = Lookup(root, BytesToNibbles(k)) ]_vars

\* Three keys with two different values are in the trie: the first key's
\* value moved into a branch_value when a key extending it was inserted, and
\* a third key sits in another slot of the branch above it.
C21_Witness ==
    /\ panicked = "no"
    /\ DOMAIN inserted = {<<18>>, <<18, 19>>, <<19>>}
    /\ inserted[<<18>>] # inserted[<<18, 19>>]
    /\ root.kind = "Extension"
    /\ root.child.kind = "Branch"
    /\ root.child.children[2].kind = "Branch"
    /\ root.child.children[2].branch_value = Some(ValueNode(inserted[<<18>>]))
    /\ root.child.children[3].kind = "Value"

====
